---- MODULE Spec2Model ----
(***************************************************************************)
(* Verification model of scripts/build-data.mjs, the static-data build     *)
(* pipeline: merge base + patch records, validate identity uniqueness,     *)
(* normalize image references, serialize canonically and publish           *)
(* content-addressed artifacts.                                            *)
(*                                                                         *)
(* JavaScript strings are modelled as sequences of tokens; every token     *)
(* stands for a fixed piece of text that shares no character with the      *)
(* separators "/" and "\", so that prefix tests, splitting and             *)
(* concatenation on token sequences agree with the same operations on the  *)
(* text.  JavaScript values are tagged records.                            *)
(***************************************************************************)
EXTENDS Integers, Sequences, FiniteSets, TLC

VARIABLES
    \* ---- normalizeImagePath / toLite* applied to one record
    nEntry,     \* the source record
    nFull,      \* the record of the full output built from it
    nLite,      \* the record of the lite output built from nFull
    nNs,        \* the namespace of the record: "amiibo" | "skylander"
    npc,        \* "raw" | "full" | "lite"
    \* ---- stableJsonStringify applied to values of a heap
    heap,       \* the object and array nodes, by identity (index)
    jout,       \* the outcome of serializing two roots, or NoOut
    \* ---- loadPatchEntriesAndImageDirs applied to a patch tree
    proot,      \* the components of ROOT (process.cwd())
    pexists,    \* whether resources/patches exists
    ptree,      \* the entries below resources/patches
    pres,       \* what the call returned or threw, or NoRes
    \* ---- main: runs of the pipeline against the distribution root
    pc,                 \* the position of the current run in main
    run,                \* the number of the current run (its timestamp)
    amiiboEntries,      \* the merged amiibo records (line 285)
    skylanderEntries,   \* the merged skylander records (line 286)
    fullOut,            \* line 313
    liteOut,            \* line 319
    wi,                 \* which of the five writes is in progress
    distDirs,           \* the directories made under the distribution root
    dist,               \* the files under the distribution root: name -> data
    dist0               \* the files as they were when the current run began

normVars == <<nEntry, nFull, nLite, nNs, npc>>
jsonVars == <<heap, jout>>
patchVars == <<proot, pexists, ptree, pres>>
mainVars == <<pc, run, amiiboEntries, skylanderEntries, fullOut, liteOut, wi,
              distDirs, dist, dist0>>

vars == <<nEntry, nFull, nLite, nNs, npc, heap, jout, proot, pexists, ptree, pres,
          pc, run, amiiboEntries, skylanderEntries, fullOut, liteOut, wi,
          distDirs, dist, dist0>>

(***************************************************************************)
(* Bounds of the model.                                                    *)
(***************************************************************************)
MaxImageLen == 4        \* tokens in a raw image reference
MaxNodes == 3           \* object and array nodes of a heap
MaxProps == 2           \* properties of an object, elements of an array
MaxTreeEntries == 3     \* files and directories below the patches root
MaxTreeDepth == 3       \* components of a path below the patches root
MaxEntries == 2         \* merged amiibo records of a run
MaxRuns == 2            \* runs against one distribution root
WriteChunks == 2        \* pieces in which fs.writeFile writes a buffer

(***************************************************************************)
(* JavaScript values.                                                      *)
(***************************************************************************)
Str(s) == [t |-> "str", s |-> s]
Num(n) == [t |-> "num", n |-> n]
Null == [t |-> "null"]
Undefined == [t |-> "undefined"]
Obj(fields) == [t |-> "obj", f |-> fields]

EmptyStr == Str(<<>>)
NoFields == [k \in {} |-> Undefined]

\* the variables of a component that a specification does not exercise
NormIdle ==
    /\ nEntry = Null
    /\ nFull = Null
    /\ nLite = Null
    /\ nNs = "none"
    /\ npc = "idle"

NoRes == [err |-> "pending"]

PatchIdle ==
    /\ proot = <<>>
    /\ pexists = FALSE
    /\ ptree = {}
    /\ pres = NoRes

NoFiles == [n \in {} |-> Null]

MainIdle ==
    /\ pc = "idle"
    /\ run = 0
    /\ amiiboEntries = <<>>
    /\ skylanderEntries = <<>>
    /\ fullOut = Null
    /\ liteOut = Null
    /\ wi = 0
    /\ distDirs = {}
    /\ dist = NoFiles
    /\ dist0 = NoFiles

\* e.f : undefined when the property is absent (e is an object)
Get(e, f) == IF e.t = "obj" /\ f \in DOMAIN e.f THEN e.f[f] ELSE Undefined

\* a ?? b
Nullish(a, b) == IF a.t \in {"null", "undefined"} THEN b ELSE a

\* { ...e, k1: v1, ... } : own properties of e overridden by upd
Spread(e, upd) ==
    [k \in (IF e.t = "obj" THEN DOMAIN e.f ELSE {}) \cup DOMAIN upd |->
        IF k \in DOMAIN upd THEN upd[k] ELSE e.f[k]]

(***************************************************************************)
(* normalizeImagePath (lines 64-79).                                       *)
(***************************************************************************)
Slash == "/"
Backslash == "\\"
ImagesTok == "images"

\* image.replace("\\", "/"): only the first occurrence
ReplaceAllBackslashFirstOnly(s) ==
    IF \E i \in 1..Len(s) : s[i] = Backslash
    THEN LET i == CHOOSE i \in 1..Len(s) :
                     /\ s[i] = Backslash
                     /\ \A j \in 1..(i - 1) : s[j] # Backslash
         IN  [s EXCEPT ![i] = Slash]
    ELSE s

\* image.replaceAll("\\", "/")
ReplaceAllBackslash(s) ==
    [i \in 1..Len(s) |-> IF s[i] = Backslash THEN Slash ELSE s[i]]

\* posixish.startsWith("images/")
StartsWithImages(s) == Len(s) >= 2 /\ s[1] = ImagesTok /\ s[2] = Slash

\* path.posix.basename(p): the last segment, trailing slashes dropped
PosixBasename(p) ==
    LET nonSlash == {i \in 1..Len(p) : p[i] # Slash}
    IN  IF nonSlash = {} THEN <<>>
        ELSE LET end == CHOOSE i \in nonSlash : \A j \in nonSlash : j <= i
                 slashes == {i \in 1..end : p[i] = Slash}
                 start == IF slashes = {} THEN 1
                          ELSE 1 + CHOOSE i \in slashes : \A j \in slashes : j <= i
             IN  SubSeq(p, start, end)

normalizeImagePath(entry) ==
    LET raw == Get(entry, "image")
        image == IF raw.t = "str" THEN raw.s ELSE <<>>
    IN  IF image = <<>> THEN <<>>
        ELSE LET posixish == ReplaceAllBackslash(image)
             IN  IF StartsWithImages(posixish) THEN posixish
                 ELSE LET basename == PosixBasename(posixish)
                      IN  IF basename # <<>>
                          THEN <<ImagesTok, Slash>> \o basename
                          ELSE <<>>

(***************************************************************************)
(* The records of the full output (lines 300-310) and of the lite output   *)
(* (lines 81-104).                                                         *)
(***************************************************************************)
AmiiboTag == Str(<<"amiibo">>)
SkylanderTag == Str(<<"skylander">>)

\* the record built without the spread of the source record
normalizedRecordWithoutSpread(e, tag) ==
    Obj([type |-> Nullish(Get(e, "type"), tag),
         image |-> Str(normalizeImagePath(e))])

\* lines 300-310: { ...e, type: e.type ?? tag, image: normalizeImagePath(e) }
normalizedRecord(e, tag) ==
    Obj(Spread(e, [type |-> Nullish(Get(e, "type"), tag),
                   image |-> Str(normalizeImagePath(e))]))

toLiteAmiibo(entry) ==
    Obj([amiiboSeries |-> Nullish(Get(entry, "amiiboSeries"), EmptyStr),
         character |-> Nullish(Get(entry, "character"), EmptyStr),
         gameSeries |-> Nullish(Get(entry, "gameSeries"), EmptyStr),
         head |-> Nullish(Get(entry, "head"), EmptyStr),
         image |-> Str(normalizeImagePath(entry)),
         name |-> Nullish(Get(entry, "name"), EmptyStr),
         tail |-> Nullish(Get(entry, "tail"), EmptyStr),
         type |-> Nullish(Get(entry, "type"), AmiiboTag)])

toLiteSkylander(entry) ==
    Obj([gameSeries |-> Nullish(Get(entry, "gameSeries"),
                          Nullish(Get(entry, "gameSeriesName"),
                            Nullish(Get(entry, "game"), EmptyStr))),
         figureId |-> Nullish(Get(entry, "figureId"), Num(0)),
         variant |-> Nullish(Get(entry, "variant"), Num(0)),
         sig |-> Nullish(Get(entry, "sig"), Num(0)),
         image |-> Str(normalizeImagePath(entry)),
         name |-> Nullish(Get(entry, "name"), EmptyStr),
         type |-> Nullish(Get(entry, "type"), SkylanderTag)])

(***************************************************************************)
(* stableJsonStringify (lines 28-53).                                      *)
(*                                                                         *)
(* A heap is a sequence of nodes; a node's index is its identity.  An      *)
(* object node keeps its keys in insertion order.  A value is a number or  *)
(* a reference to a node.  Keys are strings of characters.                 *)
(***************************************************************************)
Ref(i) == [t |-> "ref", id |-> i]

NoOut == [a |-> 0, b |-> 0, ra |-> Null, rb |-> Null]

JsonIdle ==
    /\ heap = <<>>
    /\ jout = NoOut

\* UTF-16 code units of the characters used in keys
CharCode(c) ==
    CASE c = "0" -> 48 [] c = "1" -> 49 [] c = "2" -> 50 [] c = "a" -> 97

IsDigit(c) == CharCode(c) >= 48 /\ CharCode(c) <= 57

\* the default comparison of Array.prototype.sort: by code units
RECURSIVE LexLess(_, _)
LexLess(k1, k2) ==
    IF k1 = <<>> THEN k2 # <<>>
    ELSE IF k2 = <<>> THEN FALSE
    ELSE IF CharCode(Head(k1)) # CharCode(Head(k2))
         THEN CharCode(Head(k1)) < CharCode(Head(k2))
         ELSE LexLess(Tail(k1), Tail(k2))

\* a canonical array index ("0", "2", "10"; not "01", not "a")
IsIndexKey(k) ==
    /\ k # <<>>
    /\ \A i \in 1..Len(k) : IsDigit(k[i])
    /\ (Len(k) > 1 => k[1] # "0")

RECURSIVE IndexValue(_)
IndexValue(k) ==
    IF k = <<>> THEN 0
    ELSE 10 * IndexValue(SubSeq(k, 1, Len(k) - 1)) + (CharCode(k[Len(k)]) - 48)

IndexLess(k1, k2) == IndexValue(k1) < IndexValue(k2)

\* the order in which an object lists its own keys (Object.keys,
\* JSON.stringify): index keys ascending by value, then the other keys in
\* insertion order
OwnKeys(keys) ==
    SortSeq(SelectSeq(keys, IsIndexKey), IndexLess)
        \o SelectSeq(keys, LAMBDA k : ~IsIndexKey(k))

\* Object.keys(value).sort()
SortedKeys(keys) == SortSeq(OwnKeys(keys), LexLess)

\* the keys of the object `out` that sorter fills in sorted order, in the
\* order JSON.stringify lists them
OutKeys(keys) == OwnKeys(SortedKeys(keys))

\* seen.has(value), lines 36-38: the WeakSet is only ever added to
SeenHas(seen, id) == id \in seen

\* sorter (lines 32-50) followed by JSON.stringify (line 52): a depth-first
\* traversal threading the set `seen`.  The result is [err, seen, str].
RECURSIVE Sorter(_, _, _)
RECURSIVE SorterItems(_, _, _, _, _)
RECURSIVE SorterProps(_, _, _, _, _)

Sorter(h, v, seen) ==
    IF v.t = "num" THEN [err |-> FALSE, seen |-> seen, str |-> <<ToString(v.n)>>]
    ELSE IF SeenHas(seen, v.id)
         THEN [err |-> TRUE, seen |-> seen, str |-> <<>>]
         ELSE LET node == h[v.id]
                  seen1 == seen \cup {v.id}
              IN  IF node.kind = "arr"
                  THEN SorterItems(h, node.items, 1, seen1, <<"[">>)
                  ELSE SorterProps(h, node, OutKeys(node.keys), seen1, <<"{">>)

\* value.map(sorter), rendered "[" e1 "," e2 "]"
SorterItems(h, items, i, seen, acc) ==
    IF i > Len(items) THEN [err |-> FALSE, seen |-> seen, str |-> Append(acc, "]")]
    ELSE LET r == Sorter(h, items[i], seen)
         IN  IF r.err THEN r
             ELSE SorterItems(h, items, i + 1, r.seen,
                      acc \o (IF i > 1 THEN <<",">> ELSE <<>>) \o r.str)

\* for (const k of Object.keys(value).sort()) out[k] = sorter(value[k]),
\* rendered "{" "k1" ":" v1 "," ... "}".  The values are visited in sorted
\* order and rendered in the order in which `out` lists its keys.
SorterProps(h, node, keys, seen, acc) ==
    LET visitOrder == SortedKeys(node.keys)
        RECURSIVE Visit(_, _, _)
        Visit(j, sn, done) ==
            IF j > Len(visitOrder) THEN [err |-> FALSE, seen |-> sn, vals |-> done]
            ELSE LET r == Sorter(h, node.val[visitOrder[j]], sn)
                 IN  IF r.err THEN [err |-> TRUE, seen |-> sn, vals |-> done]
                     ELSE Visit(j + 1, r.seen, done @@ (visitOrder[j] :> r.str))
        visited == Visit(1, seen, [k \in {} |-> <<>>])
        RECURSIVE Render(_, _)
        Render(j, out) ==
            IF j > Len(keys) THEN Append(out, "}")
            ELSE Render(j + 1,
                     out \o (IF j > 1 THEN <<",">> ELSE <<>>)
                         \o <<"\"">> \o keys[j] \o <<"\"", ":">>
                         \o visited.vals[keys[j]])
    IN  IF visited.err THEN [err |-> TRUE, seen |-> visited.seen, str |-> <<>>]
        ELSE [err |-> FALSE, seen |-> visited.seen, str |-> Render(1, acc)]

\* the string returned, or the error thrown
stableJsonStringify(h, v) ==
    LET r == Sorter(h, v, {})
    IN  IF r.err THEN [ok |-> FALSE, str |-> <<"Cannot stringify circular structure">>]
        ELSE [ok |-> TRUE, str |-> r.str]

(***************************************************************************)
(* Specification SpecJson: a caller builds object and array nodes, then    *)
(* serializes the values rooted at two of them.                            *)
(***************************************************************************)
JsonKeys == {<<"1", "0">>, <<"2">>}

JsonValues == {Num(1)} \cup {Ref(i) : i \in 1..Len(heap)}

JsonInit ==
    /\ JsonIdle
    /\ NormIdle
    /\ PatchIdle
    /\ MainIdle

\* value = {}
NewObject ==
    /\ jout = NoOut
    /\ Len(heap) < MaxNodes
    /\ heap' = Append(heap, [kind |-> "obj", keys |-> <<>>,
                             val |-> [k \in {} |-> Null], items |-> <<>>])
    /\ UNCHANGED <<jout>>
    /\ UNCHANGED <<normVars, patchVars, mainVars>>

\* value = []
NewArray ==
    /\ jout = NoOut
    /\ Len(heap) < MaxNodes
    /\ heap' = Append(heap, [kind |-> "arr", keys |-> <<>>,
                             val |-> [k \in {} |-> Null], items |-> <<>>])
    /\ UNCHANGED <<jout>>
    /\ UNCHANGED <<normVars, patchVars, mainVars>>

\* value[k] = v, for a key the object does not have yet
SetProp ==
    /\ jout = NoOut
    /\ \E id \in 1..Len(heap), k \in JsonKeys, v \in JsonValues :
        /\ heap[id].kind = "obj"
        /\ Len(heap[id].keys) < MaxProps
        /\ k \notin {heap[id].keys[i] : i \in 1..Len(heap[id].keys)}
        /\ heap' = [heap EXCEPT ![id].keys = Append(@, k),
                                ![id].val = @ @@ (k :> v)]
    /\ UNCHANGED <<jout>>
    /\ UNCHANGED <<normVars, patchVars, mainVars>>

\* value.push(v)
PushItem ==
    /\ jout = NoOut
    /\ \E id \in 1..Len(heap), v \in JsonValues :
        /\ heap[id].kind = "arr"
        /\ Len(heap[id].items) < MaxProps
        /\ heap' = [heap EXCEPT ![id].items = Append(@, v)]
    /\ UNCHANGED <<jout>>
    /\ UNCHANGED <<normVars, patchVars, mainVars>>

\* stableJsonStringify(a), stableJsonStringify(b)
Serialize ==
    /\ jout = NoOut
    /\ \E a \in 1..Len(heap), b \in 1..Len(heap) :
        /\ a < b
        /\ jout' = [a |-> a, b |-> b,
                    ra |-> stableJsonStringify(heap, Ref(a)),
                    rb |-> stableJsonStringify(heap, Ref(b))]
    /\ UNCHANGED <<heap>>
    /\ UNCHANGED <<normVars, patchVars, mainVars>>

JsonNext == NewObject \/ NewArray \/ SetProp \/ PushItem \/ Serialize

SpecJson == JsonInit /\ [][JsonNext]_vars

(***************************************************************************)
(* Structure of the values of a heap.                                      *)
(***************************************************************************)
\* a node is reachable again from inside its own traversal
RECURSIVE HasCycle(_, _, _)
HasCycle(h, v, path) ==
    IF v.t # "ref" THEN FALSE
    ELSE IF v.id \in path THEN TRUE
    ELSE LET node == h[v.id]
             kids == {node.items[i] : i \in 1..Len(node.items)}
                        \cup {node.val[k] : k \in DOMAIN node.val}
         IN  \E c \in kids : HasCycle(h, c, path \cup {v.id})

\* structural equality of two acyclic values: same keys mapped to equal
\* values, arrays equal element by element
RECURSIVE StructEqual(_, _, _)
StructEqual(h, v, w) ==
    IF v.t # "ref" \/ w.t # "ref" THEN v = w
    ELSE LET n == h[v.id]
             m == h[w.id]
         IN  /\ n.kind = m.kind
             /\ Len(n.items) = Len(m.items)
             /\ \A i \in 1..Len(n.items) : StructEqual(h, n.items[i], m.items[i])
             /\ DOMAIN n.val = DOMAIN m.val
             /\ \A k \in DOMAIN n.val : StructEqual(h, n.val[k], m.val[k])

\* C9: serialization fails if and only if a node is met again while its own
\* traversal is still open, that is, if and only if the value has a cycle; a
\* node shared without a cycle does not make it fail.
C9_FailsIffCycle ==
    jout # NoOut => (~jout.ra.ok <=> HasCycle(heap, Ref(jout.a), {}))

\* C4: two structurally equal values, whatever the insertion order of their
\* keys, serialize to the same string.
C4_KeyOrderIndependent ==
    (/\ jout # NoOut
     /\ ~HasCycle(heap, Ref(jout.a), {})
     /\ ~HasCycle(heap, Ref(jout.b), {})
     /\ StructEqual(heap, Ref(jout.a), Ref(jout.b)))
    => (jout.ra.ok /\ jout.rb.ok /\ jout.ra.str = jout.rb.str)

(***************************************************************************)
(* listFilesRecursive (lines 125-134) and loadPatchEntriesAndImageDirs     *)
(* (lines 171-222).                                                        *)
(*                                                                         *)
(* A path is a sequence of components, a component a string.  An entry of  *)
(* the patch tree is a directory or a regular file; a file carries the     *)
(* value JSON.parse gives for its text: ArrayOf(items) or another value.   *)
(***************************************************************************)
ArrayOf(items) == [t |-> "arr", items |-> items]

ImagesName == <<"images">>

\* path.join(ROOT, "resources", "patches"), split at the separators
PatchesDir(root) == root \o <<<<"resources">>, <<"patches">>>>

\* String.prototype.toLowerCase on the tokens used in names and type tags
LowerTok(c) ==
    CASE c = ".JSON" -> ".json"
      [] c = "Skylander" -> "skylander"
      [] c = "SKYLANDER" -> "skylander"
      [] OTHER -> c

ToLowerCase(s) == [i \in 1..Len(s) |-> LowerTok(s[i])]

\* f.toLowerCase().endsWith(".json"), f the path of a file: its text ends
\* with the text of its last component
EndsWithJson(f) ==
    LET name == ToLowerCase(f[Len(f)])
    IN  Len(name) >= 1 /\ name[Len(name)] = ".json"

\* the entries of directory dir (fs.readdir)
Items(tree, dir) ==
    {e \in tree : Len(e.path) = Len(dir) + 1 /\ SubSeq(e.path, 1, Len(dir)) = dir}

\* listFilesRecursive(dir): the regular files below dir, every directory's
\* files in one run; readdir fixes no order of the items, so every order is
\* a possible result
RECURSIVE ListFilesRecursive(_, _)
ListFilesRecursive(tree, dir) ==
    LET RECURSIVE Arrange(_)
        Arrange(items) ==
            IF items = {} THEN {<<>>}
            ELSE UNION {
                   {first \o rest :
                      first \in (IF it.kind = "dir"
                                 THEN ListFilesRecursive(tree, it.path)
                                 ELSE {<<it>>}),
                      rest \in Arrange(items \ {it})} : it \in items}
    IN  Arrange(Items(tree, dir))

\* parts.lastIndexOf("images"), 0 when there is none
LastIndexOf(parts, name) ==
    LET at == {i \in 1..Len(parts) : parts[i] = name}
    IN  IF at = {} THEN 0 ELSE CHOOSE i \in at : \A j \in at : j <= i

\* lines 183-192: the directories collected from the paths of the files
PatchImageDirs(root, files) ==
    {SubSeq(PatchesDir(root) \o files[i].path, 1,
            LastIndexOf(PatchesDir(root) \o files[i].path, ImagesName)) :
        i \in {j \in 1..Len(files) :
                 LastIndexOf(PatchesDir(root) \o files[j].path, ImagesName) # 0}}

\* lines 205-210: "sky", "amiibo", or "TypeError" when the type tag has no
\* toLowerCase method
Classify(e) ==
    LET tag == Nullish(Get(e, "type"), EmptyStr)
    IN  IF tag.t # "str" THEN "TypeError"
        ELSE IF \/ ToLowerCase(tag.s) = <<"skylander">>
                \/ Get(e, "figureId").t = "num"
                \/ Get(e, "variant").t = "num"
                \/ Get(e, "sig").t = "num"
             THEN "sky"
             ELSE "amiibo"

\* lines 197-215: the files read in order, every element classified; stops
\* at the first error
RECURSIVE ReadPatches(_, _, _)
ReadPatches(files, i, acc) ==
    IF i > Len(files) THEN acc
    ELSE LET parsed == files[i].json
             RECURSIVE Each(_, _)
             Each(j, a) ==
                 IF j > Len(parsed.items) THEN a
                 ELSE LET c == Classify(parsed.items[j])
                      IN  IF c = "TypeError" THEN [a EXCEPT !.err = "TypeError"]
                          ELSE IF c = "sky"
                          THEN Each(j + 1, [a EXCEPT !.sky = Append(@, parsed.items[j])])
                          ELSE Each(j + 1, [a EXCEPT !.amiibo = Append(@, parsed.items[j])])
         IN  IF parsed.t # "arr" THEN [acc EXCEPT !.err = "MalformedPatch"]
             ELSE LET a == Each(1, acc)
                  IN  IF a.err # "none" THEN a ELSE ReadPatches(files, i + 1, a)

\* the results loadPatchEntriesAndImageDirs can give, one per listing order
LoadResults(root, exists, tree) ==
    IF ~exists
    THEN {[err |-> "none", amiibo |-> <<>>, sky |-> <<>>, dirs |-> {}]}
    ELSE {LET jsonFiles == SelectSeq(files, LAMBDA f : EndsWithJson(f.path))
          IN  ReadPatches(jsonFiles, 1,
                  [err |-> "none", amiibo |-> <<>>, sky |-> <<>>,
                   dirs |-> PatchImageDirs(root, files)]) :
            files \in ListFilesRecursive(tree, <<>>)}

(***************************************************************************)
(* Specification SpecPatch: a patch tree is laid out, then loaded.         *)
(***************************************************************************)
Roots == {<<<<"">>, <<"proj">>>>, <<<<"">>, <<"images">>, <<"proj">>>>}

DirNames == {ImagesName, <<"a">>}
FileNames == {ImagesName, <<"p", ".json">>, <<"Q", ".JSON">>, <<"x", ".png">>}

TypeTags == {Str(<<"skylander">>), Str(<<"Skylander">>), Str(<<"amiibo">>), Num(5), Null}
FigureIds == {Num(1200), Str(<<"1200">>)}

\* records as a patch file may hold them: any subset of the fields
PatchElements ==
    {Obj(NoFields), Null}
    \cup {Obj([type |-> ty]) : ty \in TypeTags}
    \cup {Obj([figureId |-> id]) : id \in FigureIds}
    \cup {Obj([type |-> ty, figureId |-> id]) : ty \in TypeTags, id \in FigureIds}
    \cup {Obj([sig |-> Num(7)]), Obj([variant |-> Num(0)]),
          Obj([head |-> Str(<<"04">>), tail |-> Str(<<"01">>)])}

\* what JSON.parse may give for a patch file
PatchContents ==
    {Obj(NoFields), ArrayOf(<<>>)} \cup {ArrayOf(<<e>>) : e \in PatchElements}

PatchInit ==
    /\ proot \in Roots
    /\ pexists \in BOOLEAN
    /\ ptree = {}
    /\ pres = NoRes
    /\ NormIdle
    /\ JsonIdle
    /\ MainIdle

CanAdd(path) ==
    /\ pexists
    /\ pres = NoRes
    /\ Cardinality(ptree) < MaxTreeEntries
    /\ Len(path) <= MaxTreeDepth
    /\ \A e \in ptree : e.path # path
    /\ Len(path) > 1 =>
          \E d \in ptree : d.kind = "dir" /\ d.path = SubSeq(path, 1, Len(path) - 1)

\* a directory appears below the patches root
MkDir ==
    /\ \E parent \in {<<>>} \cup {d.path : d \in {e \in ptree : e.kind = "dir"}},
          name \in DirNames :
        /\ CanAdd(Append(parent, name))
        /\ ptree' = ptree \cup
              {[path |-> Append(parent, name), kind |-> "dir", json |-> Null]}
    /\ UNCHANGED <<proot, pexists, pres>>
    /\ UNCHANGED <<normVars, jsonVars, mainVars>>

\* a regular file appears below the patches root
MkFile ==
    /\ \E parent \in {<<>>} \cup {d.path : d \in {e \in ptree : e.kind = "dir"}},
          name \in FileNames :
        /\ CanAdd(Append(parent, name))
        /\ \E content \in (IF EndsWithJson(<<name>>) THEN PatchContents ELSE {Null}) :
              ptree' = ptree \cup
                 {[path |-> Append(parent, name), kind |-> "file", json |-> content]}
    /\ UNCHANGED <<proot, pexists, pres>>
    /\ UNCHANGED <<normVars, jsonVars, mainVars>>

\* loadPatchEntriesAndImageDirs()
LoadPatches ==
    /\ pres = NoRes
    /\ pres' \in LoadResults(proot, pexists, ptree)
    /\ UNCHANGED <<proot, pexists, ptree>>
    /\ UNCHANGED <<normVars, jsonVars, mainVars>>

PatchNext == MkDir \/ MkFile \/ LoadPatches

SpecPatch == PatchInit /\ [][PatchNext]_vars

\* the elements of the patch arrays of a tree
PatchArrayElements ==
    UNION {{e.json.items[i] : i \in 1..Len(e.json.items)} :
             e \in {f \in ptree : f.kind = "file" /\ EndsWithJson(f.path)
                                   /\ f.json.t = "arr"}}

\* the rule of classification: skylander when the type tag is "skylander"
\* whatever its case, or when figureId, variant or sig is a number; amiibo
\* in every other case
IsSkylander(e) ==
    \/ (Get(e, "type").t = "str" /\ ToLowerCase(Get(e, "type").s) = <<"skylander">>)
    \/ Get(e, "figureId").t = "num"
    \/ Get(e, "variant").t = "num"
    \/ Get(e, "sig").t = "num"

SeqToSet(s) == {s[i] : i \in 1..Len(s)}

\* C6: every element of every patch array is classified into exactly one
\* namespace without error, skylander by its type tag or a numeric figure
\* field, amiibo in every other case (whatever the kind of its type tag).
C6_ClassificationTotal ==
    (/\ pres # NoRes
     /\ \A f \in ptree : (f.kind = "file" /\ EndsWithJson(f.path)) => f.json.t = "arr")
    => /\ pres.err = "none"
       /\ SeqToSet(pres.sky) = {e \in PatchArrayElements : IsSkylander(e)}
       /\ SeqToSet(pres.amiibo) = {e \in PatchArrayElements : ~IsSkylander(e)}

\* the directories below the patches root named "images"
ImagesDirsOfTree ==
    {PatchesDir(proot) \o d.path :
        d \in {e \in ptree : e.kind = "dir" /\ e.path[Len(e.path)] = ImagesName}}

\* C7: the image-source directories returned are exactly the directories
\* inside the patches root whose name is "images".
C7_ImageDirsExact ==
    (pres # NoRes /\ pres.err = "none") => pres.dirs = ImagesDirsOfTree

(***************************************************************************)
(* Specification SpecNorm: one record taken through the two normalizing    *)
(* steps of main, its raw image reference drawn from every token string    *)
(* of bounded length, a non-string value, or absent.                       *)
(***************************************************************************)
ImageToks == {ImagesTok, "x", Slash, Backslash}

RECURSIVE StringsUpTo(_, _)
StringsUpTo(toks, n) ==
    IF n = 0 THEN {<<>>}
    ELSE LET shorter == StringsUpTo(toks, n - 1)
         IN  shorter \cup {Append(s, c) : s \in shorter, c \in toks}

RawImages == {Str(s) : s \in StringsUpTo(ImageToks, MaxImageLen)} \cup {Num(7), Null}

NormEntries ==
    {Obj([image |-> v]) : v \in RawImages} \cup {Obj(NoFields)}

NormInit ==
    /\ nEntry \in NormEntries
    /\ nFull = Null
    /\ nLite = Null
    /\ nNs \in {"amiibo", "skylander"}
    /\ npc = "raw"
    /\ JsonIdle
    /\ PatchIdle
    /\ MainIdle

\* main, lines 300-310: the record of the full output
NormalizeFull ==
    /\ npc = "raw"
    /\ nFull' = normalizedRecord(nEntry, IF nNs = "amiibo" THEN AmiiboTag
                                          ELSE SkylanderTag)
    /\ npc' = "full"
    /\ UNCHANGED <<nEntry, nLite, nNs>>
    /\ UNCHANGED <<jsonVars, patchVars, mainVars>>

\* main, lines 320-321: the record of the lite output, from the normalized record
ProjectLite ==
    /\ npc = "full"
    /\ nLite' = IF nNs = "amiibo" THEN toLiteAmiibo(nFull) ELSE toLiteSkylander(nFull)
    /\ npc' = "lite"
    /\ UNCHANGED <<nEntry, nFull, nNs>>
    /\ UNCHANGED <<jsonVars, patchVars, mainVars>>

NormNext == NormalizeFull \/ ProjectLite

SpecNorm == NormInit /\ [][NormNext]_vars

\* C8: normalizing a normalized image reference returns it unchanged: the
\* image of the lite record, which is the normalization of the full record's
\* image, equals the image of the full record.
C8_NormalizeIdempotent ==
    npc = "lite" => Get(nLite, "image") = Get(nFull, "image")

\* a raw reference that the first normalization changes (backslashes and a
\* directory part) has gone through both normalizations
C8_Witness ==
    /\ npc = "lite"
    /\ Get(nEntry, "image") = Str(<<"x", Backslash, "x">>)
    /\ Get(nFull, "image") = Str(<<ImagesTok, Slash, "x">>)
    /\ Get(nLite, "image") = Str(<<ImagesTok, Slash, "x">>)

(***************************************************************************)
(* validateNoDuplicates (lines 224-265).                                   *)
(***************************************************************************)
\* `${v}` for the values that occur as identity fields
TemplateString(v) ==
    CASE v.t = "str" -> v.s
      [] v.t = "num" -> <<ToString(v.n)>>
      [] OTHER -> <<v.t>>

\* lines 227-236: TRUE when the loop over the amiibo records throws
RECURSIVE AmiiboThrows(_, _, _)
AmiiboThrows(entries, i, seen) ==
    IF i > Len(entries) THEN FALSE
    ELSE LET head == Nullish(Get(entries[i], "head"), EmptyStr)
             tail == Nullish(Get(entries[i], "tail"), EmptyStr)
             key == TemplateString(head) \o <<"-">> \o TemplateString(tail)
         IN  IF head # EmptyStr /\ tail # EmptyStr /\ key \in seen THEN TRUE
             ELSE AmiiboThrows(entries, i + 1, seen \cup {key})

\* typeof v === "number" && Number.isFinite(v) ? v : null
FiniteNumber(v) == IF v.t = "num" THEN v ELSE Null

\* lines 243-257
SkylanderKey(e) ==
    LET sig == FiniteNumber(Get(e, "sig"))
        figureId == FiniteNumber(Get(e, "figureId"))
        variant == FiniteNumber(Get(e, "variant"))
    IN  IF sig # Null THEN <<"sig:">> \o TemplateString(sig)
        ELSE <<"figureId-variant:">>
                 \o TemplateString(Nullish(figureId, Str(<<"?">>)))
                 \o <<"-">>
                 \o TemplateString(Nullish(variant, Str(<<"?">>)))

\* lines 241-263: TRUE when the loop over the skylander records throws
RECURSIVE SkylanderThrows(_, _, _)
SkylanderThrows(entries, i, seen) ==
    IF i > Len(entries) THEN FALSE
    ELSE LET key == SkylanderKey(entries[i])
         IN  IF key \in seen THEN TRUE
             ELSE SkylanderThrows(entries, i + 1, seen \cup {key})

\* TRUE when validateNoDuplicates returns, FALSE when it throws
validateNoDuplicates(amiibo, skylanders) ==
    ~AmiiboThrows(amiibo, 1, {}) /\ ~SkylanderThrows(skylanders, 1, {})

(***************************************************************************)
(* The files of the distribution root.  A name is a stem, the digest put   *)
(* in the name (if any) and the ".tmp" suffix (if any); the data of a      *)
(* file are the buffer being written and how many of its WriteChunks       *)
(* pieces are in the file.                                                 *)
(***************************************************************************)
\* the canonical bytes of a value; main serializes values that JSON.parse
\* and object literals built, in which no node occurs twice, and the bytes
\* of such a value are determined by it
BufferOf(value) == [json |-> value]

\* sha1Hex (lines 24-26), taken as free of collisions
sha1Hex(buf) == [sha1 |-> buf]

\* `${stem}.${sha}.json`
VersionedName(stem, sha) == [stem |-> stem, sha |-> <<sha>>, tmp |-> FALSE]

\* `${stem}.json`
LatestName(stem) == [stem |-> stem, sha |-> <<>>, tmp |-> FALSE]

\* a file below dist/images
ImageName(rel) == [stem |-> rel, sha |-> <<>>, tmp |-> FALSE]

\* line 111, written in place of the destination
TmpNameInPlace(name) == name

\* line 111: `${filePath}.tmp`
TmpName(name) == [name EXCEPT !.tmp = TRUE]

Complete(data) == data.n = WriteChunks

WholeFile(buf) == [buf |-> buf, n |-> WriteChunks]

Without(files, name) == [n \in DOMAIN files \ {name} |-> files[n]]

With(files, name, data) ==
    [n \in DOMAIN files \cup {name} |-> IF n = name THEN data ELSE files[n]]

(***************************************************************************)
(* main (lines 267-365), a step at a time.                                 *)
(***************************************************************************)
\* lines 324-335
fullBuf == BufferOf(fullOut)
liteBuf == BufferOf(liteOut)
fullSha == sha1Hex(fullBuf)
liteSha == sha1Hex(liteBuf)
fullName == VersionedName("tags", fullSha)
liteName == VersionedName("tags.lite", liteSha)

\* lines 346-352
lastUpdated ==
    [tags_sha1 |-> fullSha, tags_lite_sha1 |-> liteSha, timestamp |-> run]

\* the five calls of writeFileAtomic, the latest copies first
WritesLatestFirst ==
    << [name |-> LatestName("tags"), buf |-> fullBuf],
       [name |-> LatestName("tags.lite"), buf |-> liteBuf],
       [name |-> fullName, buf |-> fullBuf],
       [name |-> liteName, buf |-> liteBuf],
       [name |-> LatestName("lastupdated"), buf |-> BufferOf(lastUpdated)] >>

\* lines 337-356: the five calls of writeFileAtomic, in order
Writes ==
    << [name |-> fullName, buf |-> fullBuf],
       [name |-> liteName, buf |-> liteBuf],
       [name |-> LatestName("tags"), buf |-> fullBuf],
       [name |-> LatestName("tags.lite"), buf |-> liteBuf],
       [name |-> LatestName("lastupdated"), buf |-> BufferOf(lastUpdated)] >>

\* the source records of a run: one with every string field, one with a
\* head only
AmiiboPool ==
    { Obj([head |-> Str(<<"04">>), tail |-> Str(<<"A">>), name |-> Str(<<"X">>),
           image |-> Str(<<"x">>)]),
      Obj([head |-> Str(<<"04">>)]) }

RECURSIVE ListsUpTo(_, _)
ListsUpTo(pool, n) ==
    IF n = 0 THEN {<<>>}
    ELSE LET shorter == ListsUpTo(pool, n - 1)
         IN  shorter \cup {Append(l, e) : l \in shorter, e \in pool}

AmiiboInputs == ListsUpTo(AmiiboPool, MaxEntries)

Tree_Rex ==
    Obj([figureId |-> Num(1200), variant |-> Num(0),
         image |-> Str(<<"images", "/", "x", "/", "x">>)])

SkylanderInputs == {<<>>, <<Tree_Rex>>, <<Tree_Rex, Tree_Rex>>}

\* the files of resources/images and of the images directories of patches
ImageSources == {"images/x"}

Init ==
    /\ pc = "ensureDir"
    /\ run = 1
    /\ amiiboEntries = <<>>
    /\ skylanderEntries = <<>>
    /\ fullOut = Null
    /\ liteOut = Null
    /\ wi = 0
    /\ distDirs = {}
    /\ dist = NoFiles
    /\ dist0 = NoFiles
    /\ NormIdle
    /\ JsonIdle
    /\ PatchIdle

\* lines 268-269
EnsureDirs ==
    /\ pc = "ensureDir"
    /\ distDirs' = distDirs \cup {"dist", "dist/images"}
    /\ pc' = "load"
    /\ UNCHANGED <<run, amiiboEntries, skylanderEntries, fullOut, liteOut, wi,
                   dist, dist0>>
    /\ UNCHANGED <<normVars, jsonVars, patchVars>>

\* lines 272-286: the bases and the patches are read and merged
LoadEntries ==
    /\ pc = "load"
    /\ amiiboEntries' \in AmiiboInputs
    /\ skylanderEntries' \in SkylanderInputs
    /\ pc' = "validate"
    /\ UNCHANGED <<run, fullOut, liteOut, wi, distDirs, dist, dist0>>
    /\ UNCHANGED <<normVars, jsonVars, patchVars>>

\* lines 272-282: a base or a patch cannot be read, parsed or classified
LoadFails ==
    /\ pc = "load"
    /\ pc' = "failed"
    /\ UNCHANGED <<run, amiiboEntries, skylanderEntries, fullOut, liteOut, wi,
                   distDirs, dist, dist0>>
    /\ UNCHANGED <<normVars, jsonVars, patchVars>>

\* line 288
Validate ==
    /\ pc = "validate"
    /\ pc' = IF validateNoDuplicates(amiiboEntries, skylanderEntries)
             THEN "copy" ELSE "failed"
    /\ UNCHANGED <<run, amiiboEntries, skylanderEntries, fullOut, liteOut, wi,
                   distDirs, dist, dist0>>
    /\ UNCHANGED <<normVars, jsonVars, patchVars>>

\* lines 292-297: fs.copyFile of every source image
CopyImages ==
    /\ pc = "copy"
    /\ dist' = [n \in DOMAIN dist \cup {ImageName(f) : f \in ImageSources} |->
                  IF n \in {ImageName(f) : f \in ImageSources}
                  THEN WholeFile(BufferOf(n.stem)) ELSE dist[n]]
    /\ pc' = "normalize"
    /\ UNCHANGED <<run, amiiboEntries, skylanderEntries, fullOut, liteOut, wi,
                   distDirs, dist0>>
    /\ UNCHANGED <<normVars, jsonVars, patchVars>>

\* lines 300-322
BuildOutputs ==
    /\ pc = "normalize"
    /\ LET normalizedAmiibo ==
               [i \in 1..Len(amiiboEntries) |->
                   normalizedRecord(amiiboEntries[i], AmiiboTag)]
           normalizedSkylanders ==
               [i \in 1..Len(skylanderEntries) |->
                   normalizedRecord(skylanderEntries[i], SkylanderTag)]
       IN  /\ fullOut' = [amiibo |-> normalizedAmiibo,
                          skylanders |-> normalizedSkylanders]
           /\ liteOut' = [amiibo |-> [i \in 1..Len(normalizedAmiibo) |->
                                         toLiteAmiibo(normalizedAmiibo[i])],
                          skylanders |-> [i \in 1..Len(normalizedSkylanders) |->
                                         toLiteSkylander(normalizedSkylanders[i])]]
    /\ wi' = 1
    /\ pc' = "open"
    /\ UNCHANGED <<run, amiiboEntries, skylanderEntries, distDirs, dist, dist0>>
    /\ UNCHANGED <<normVars, jsonVars, patchVars>>

\* line 112: fs.writeFile creates or truncates the temporary file
OpenTmp ==
    /\ pc = "open"
    /\ dist' = With(dist, TmpName(Writes[wi].name), [buf |-> Writes[wi].buf, n |-> 0])
    /\ pc' = "write"
    /\ UNCHANGED <<run, amiiboEntries, skylanderEntries, fullOut, liteOut, wi,
                   distDirs, dist0>>
    /\ UNCHANGED <<normVars, jsonVars, patchVars>>

\* line 112: fs.writeFile writes the next piece of the buffer
WriteChunk ==
    /\ pc = "write"
    /\ LET tmp == TmpName(Writes[wi].name)
       IN  /\ dist' = [dist EXCEPT ![tmp].n = @ + 1]
           /\ pc' = IF dist[tmp].n + 1 = WriteChunks THEN "rename" ELSE "write"
    /\ UNCHANGED <<run, amiiboEntries, skylanderEntries, fullOut, liteOut, wi,
                   distDirs, dist0>>
    /\ UNCHANGED <<normVars, jsonVars, patchVars>>

\* line 113: fs.rename(tmp, filePath)
RenameTmp ==
    /\ pc = "rename"
    /\ LET tmp == TmpName(Writes[wi].name)
       IN  dist' = With(Without(dist, tmp), Writes[wi].name, dist[tmp])
    /\ wi' = IF wi < Len(Writes) THEN wi + 1 ELSE wi
    /\ pc' = IF wi < Len(Writes) THEN "open" ELSE "done"
    /\ UNCHANGED <<run, amiiboEntries, skylanderEntries, fullOut, liteOut,
                   distDirs, dist0>>
    /\ UNCHANGED <<normVars, jsonVars, patchVars>>

\* the process is killed
Crash ==
    /\ pc \notin {"done", "failed", "crashed"}
    /\ pc' = "crashed"
    /\ UNCHANGED <<run, amiiboEntries, skylanderEntries, fullOut, liteOut, wi,
                   distDirs, dist, dist0>>
    /\ UNCHANGED <<normVars, jsonVars, patchVars>>

\* the pipeline is run again on the root a completed run left
StartRun ==
    /\ pc = "done"
    /\ run < MaxRuns
    /\ run' = run + 1
    /\ pc' = "ensureDir"
    /\ amiiboEntries' = <<>>
    /\ skylanderEntries' = <<>>
    /\ fullOut' = Null
    /\ liteOut' = Null
    /\ wi' = 0
    /\ dist0' = dist
    /\ UNCHANGED <<distDirs, dist>>
    /\ UNCHANGED <<normVars, jsonVars, patchVars>>

Next ==
    \/ EnsureDirs
    \/ LoadEntries
    \/ LoadFails
    \/ Validate
    \/ CopyImages
    \/ BuildOutputs
    \/ OpenTmp
    \/ WriteChunk
    \/ RenameTmp
    \/ Crash
    \/ StartRun

Spec == Init /\ [][Next]_vars

(***************************************************************************)
(* Properties of main.                                                     *)
(***************************************************************************)
\* validateNoDuplicates has returned without error in the current run
Validated == pc \in {"copy", "normalize", "open", "write", "rename", "done"}

\* the identity key of an amiibo record: (head, tail), absent read as ""
AmiiboPair(e) ==
    <<Nullish(Get(e, "head"), EmptyStr), Nullish(Get(e, "tail"), EmptyStr)>>

\* two records of the list share a pair that is not ("", "")
RepeatedAmiiboPair(entries) ==
    \E i, j \in 1..Len(entries) :
        /\ i < j
        /\ AmiiboPair(entries[i]) = AmiiboPair(entries[j])
        /\ AmiiboPair(entries[i]) # <<EmptyStr, EmptyStr>>

\* the identity key of a skylander record: sig when it is a number,
\* otherwise (figureId, variant)
SkylanderIdentity(e) ==
    IF Get(e, "sig").t = "num" THEN <<Get(e, "sig")>>
    ELSE <<Get(e, "figureId"), Get(e, "variant")>>

RepeatedSkylanderKey(entries) ==
    \E i, j \in 1..Len(entries) :
        i < j /\ SkylanderIdentity(entries[i]) = SkylanderIdentity(entries[j])

\* C1: once validateNoDuplicates has returned without error, no two amiibo
\* records of the merged list have the same (head, tail) pair, except the
\* pair in which both are empty; a shared pair with only one of them empty
\* is rejected.
C1_NoRepeatedPairAfterValidation ==
    Validated => ~RepeatedAmiiboPair(amiiboEntries)

\* C3: when the merged list of either namespace repeats an identity key the
\* run fails, and no file under the distribution root has been created or
\* modified by it.
C3_RepeatedKeyFailsWithoutOutput ==
    (RepeatedAmiiboPair(amiiboEntries) \/ RepeatedSkylanderKey(skylanderEntries))
    => (pc \in {"validate", "failed", "crashed"} /\ dist = dist0)

\* the names main writes through writeFileAtomic
IsArtifact(n) == n.stem \in {"tags", "tags.lite", "lastupdated"}

\* the content the current run gives the file of that name, if it writes it
NewContent(n) ==
    {WholeFile(Writes[k].buf) :
        k \in {j \in 1..Len(Writes) : fullOut # Null /\ Writes[j].name = n}}

\* what the previous content of a destination was, or what the run writes
PreviousOrNew(n) ==
    \/ (n \in DOMAIN dist0 /\ dist[n] = dist0[n])
    \/ dist[n] \in NewContent(n)

\* C2 as stated: in every state, a crash included, no file of the output
\* directory is partially written, and every destination holds its complete
\* previous content or the complete new content.
C2_NoPartialFileAnywhere ==
    /\ \A n \in DOMAIN dist : Complete(dist[n])
    /\ \A n \in DOMAIN dist : (IsArtifact(n) /\ ~n.tmp) => PreviousOrNew(n)

\* C2 amended: in every state, a crash included, no file at a destination
\* name is partially written and every destination holds its complete
\* previous content or the complete new content; only the temporary sibling
\* "<destination>.tmp" can be partial.
C2_DestinationNeverPartial ==
    \A n \in DOMAIN dist :
        (IsArtifact(n) /\ ~n.tmp) => (Complete(dist[n]) /\ PreviousOrNew(n))

\* the second run crashed while it wrote the temporary sibling of
\* tags.json: the sibling is partial, tags.json holds the previous content
C2_Witness ==
    /\ pc = "crashed"
    /\ run = 2
    /\ TmpName(LatestName("tags")) \in DOMAIN dist
    /\ ~Complete(dist[TmpName(LatestName("tags"))])
    /\ dist[LatestName("tags")] = dist0[LatestName("tags")]
    /\ dist[LatestName("tags")].buf # fullBuf

AmiiboFields ==
    {"amiiboSeries", "character", "gameSeries", "head", "tail", "name", "image"}
SkylanderFields == {"gameSeries", "figureId", "variant", "sig", "name", "image"}

\* the full and the lite artifact of the current run, as written
FullArtifact == dist[fullName].buf.json
LiteArtifact == dist[liteName].buf.json

HasFields(rec, fields) ==
    \A k \in fields : Get(rec, k).t \notin {"undefined", "null"}

FullRecordOf(src, rec, tag) ==
    /\ {"type", "image"} \subseteq DOMAIN rec.f
    /\ DOMAIN rec.f \ {"type", "image"} = DOMAIN src.f \ {"type", "image"}
    /\ \A k \in DOMAIN src.f \ {"type", "image"} : rec.f[k] = src.f[k]
    /\ rec.f.type = (IF Get(src, "type").t \in {"undefined", "null"}
                     THEN tag ELSE Get(src, "type"))
    /\ rec.f.image.t = "str"
    /\ (rec.f.image.s = <<>> \/ StartsWithImages(rec.f.image.s))
    /\ (Get(src, "image").t # "str" => rec.f.image.s = <<>>)

C10_DigestsResolve ==
    /\ \A stem \in {"tags", "tags.lite"} :
          LatestName(stem) \in DOMAIN dist =>
              LET b == dist[LatestName(stem)].buf
              IN  /\ VersionedName(stem, sha1Hex(b)) \in DOMAIN dist
                  /\ dist[VersionedName(stem, sha1Hex(b))] = WholeFile(b)
    /\ LatestName("lastupdated") \in DOMAIN dist =>
          LET m == dist[LatestName("lastupdated")].buf.json
          IN  /\ \A ref \in {<<"tags", m.tags_sha1>>, <<"tags.lite", m.tags_lite_sha1>>} :
                    /\ VersionedName(ref[1], ref[2]) \in DOMAIN dist
                    /\ Complete(dist[VersionedName(ref[1], ref[2])])
                    /\ sha1Hex(dist[VersionedName(ref[1], ref[2])].buf) = ref[2]
              /\ pc = "done" =>
                    /\ m.tags_sha1 = sha1Hex(dist[LatestName("tags")].buf)
                    /\ m.tags_lite_sha1 = sha1Hex(dist[LatestName("tags.lite")].buf)

\* the second run has written its two versioned files and not yet its
\* aliases, which hold the other content of the first run
C10_Witness ==
    /\ run = 2
    /\ pc = "open"
    /\ wi = 3
    /\ fullName \in DOMAIN dist
    /\ dist[LatestName("tags")].buf # fullBuf
    /\ dist[LatestName("tags.lite")].buf # liteBuf

====
